---- MODULE Spec2Model ----
(***************************************************************************)
(* Model of bradesco_insight_app.py: a Streamlit script that is re-executed*)
(* top to bottom on every user interaction (a "run").  A run authenticates *)
(* a BigQuery client, loads the model artifacts (st.cache_resource), loads *)
(* two datasets (st.cache_data, ttl=3600) and renders one of three views.  *)
(*                                                                         *)
(* The source file is a transcript that holds two listings of the script   *)
(* (lines 1-340 and 386-771) with prose between them.  As stored it is not *)
(* a Python program: the "except ValueError:" of line 338 is indented      *)
(* under the "else:" of line 336 (SyntaxError), and the second listing     *)
(* breaks off at line 711, with a stray line 713 and its profile block     *)
(* (715-769) dedented.  The model covers both the file as stored, of which *)
(* every run ends at the SyntaxError, and the first listing with lines     *)
(* 338-339 at the indentation of the "try:" of line 282 they belong to     *)
(* (see Sources).  Line numbers refer to the first listing.                *)
(***************************************************************************)
EXTENDS Integers, Sequences, FiniteSets, TLC

(***************************************************************************)
(* Bounds of the model.                                                    *)
(***************************************************************************)
\* the clock stops advancing after MaxClock seconds
MaxClock == 4800
\* seconds that pass in one step of the clock
TickStep == 2400
\* rows of each transactions table
NumTransactions == 18

(***************************************************************************)
(* Program constants.                                                      *)
(***************************************************************************)
\* @st.cache_data(ttl=3600)
ttl == 3600
\* fraud_score >= 0.8 and fraud_score >= 0.4, with probabilities in 1/ScoreScale
ScoreScale == 100000
HighThreshold == 80000
MediumThreshold == 40000
\* the fallback code of an unseen or absent category
Sentinel == -1
\* .head(10) of the transactions tables
TopN == 10
\* the most digits int() converts (sys.int_info.default_max_str_digits of
\* CPython 3.11 and later); a longer numeral raises ValueError
MaxStrDigits == 4300

None == "None"
\* no score yet
NoScore == -1
\* a one-row frame that was never built
NoFrame == [cols |-> << >>, vals |-> << >>]
\* the dashboard metrics of a run that has not rendered the dashboard
NoMetrics == [total |-> 0, fraudulent |-> 0]
\* no artifacts: what the run holds before load_models returns
NoArtifacts ==
    [model_fraud_detection |-> None, kmeans_model |-> None, scaler |-> None,
     fraud_encoders |-> << >>, customer_encoders |-> None,
     fraud_features_names |-> << >>]
\* an empty st.cache_data slot
NoEntry == [valid |-> FALSE, at |-> 0, df |-> << >>]

(***************************************************************************)
(* The environment of the process: the secrets store, the local gcloud     *)
(* credentials, the files of the models directory and the warehouse.       *)
(***************************************************************************)
\* "gcp_key" in st.secrets, and what becomes of the try block that uses it:
\*   absent      no gcp_key entry
\*   ok          the entry parses, the temp file is written, Client() succeeds
\*   bad_json    json.loads raises
\*   unwritable  open(temp_credentials_path, "w") raises
\*   bad_client  bigquery.Client raises
SecretsStates == {"absent", "ok", "bad_json", "unwritable", "bad_client"}

\* what is run: the file as stored, or its first listing with the except
\* clause of lines 338-339 attached to the try of line 282
Sources == {"file", "listing"}

\* browser sessions open on the process: the one whose runs are followed,
\* alone or with another one
SessionCounts == {1, 2}

\* the six files joblib.load reads, in load order
ArtifactFiles ==
    << "fraud_detection_model.joblib", "kmeans_segmentation_model.joblib",
       "scaler.joblib", "fraud_label_encoders.joblib",
       "customer_label_encoders.joblib", "fraud_features_names.joblib" >>

Range(s) == {s[i] : i \in 1..Len(s)}

\* which files are absent from the models directory
MissingChoices == {{}} \cup {{f} : f \in Range(ArtifactFiles)}
                       \cup {{"scaler.joblib", "fraud_features_names.joblib"}}

(***************************************************************************)
(* Fitted label encoders.  A LabelEncoder holds its classes_ sorted; the   *)
(* code of a value is its 0-based position in classes_.                    *)
(***************************************************************************)
\* fraud_label_encoders.joblib: a dict, iterated in insertion order
EncodersFull ==
    << [col |-> "transaction_type",  classes |-> <<"pix", "ted">>],
       [col |-> "merchant_category", classes |-> <<"grocery">>],
       [col |-> "location",          classes |-> <<"SP">>],
       [col |-> "device_info",       classes |-> <<"mobile">>],
       [col |-> "account_type",      classes |-> <<"Unknown", "checking">>],
       [col |-> "marital_status",    classes |-> <<"single">>],
       [col |-> "profession",        classes |-> <<"engineer", "teacher">>] >>

\* vocabularies that lack some of the values the form can submit
EncodersNarrow ==
    << [col |-> "transaction_type",  classes |-> <<"boleto", "pix">>],
       [col |-> "account_type",      classes |-> <<"checking", "savings">>],
       [col |-> "profession",        classes |-> <<"teacher">>] >>

\* an encoder for a column the simulation row does not have
EncodersExtra ==
    << [col |-> "channel",           classes |-> <<"app", "web">>],
       [col |-> "transaction_type",  classes |-> <<"pix", "ted">>],
       [col |-> "profession",        classes |-> <<"engineer", "teacher">>] >>

EncoderMaps == {EncodersFull, EncodersNarrow, EncodersExtra}

\* fraud_features_names.joblib: the ordered list of the classifier's columns
FeaturesFull ==
    << "amount", "income", "balance", "transaction_hour",
       "transaction_day_of_week", "customer_age_at_transaction",
       "amount_per_income", "transaction_type_encoded",
       "merchant_category_encoded", "location_encoded", "device_info_encoded",
       "account_type_encoded", "marital_status_encoded", "profession_encoded" >>

\* fewer columns, in an order that is not the order of the row
FeaturesShuffled ==
    << "profession_encoded", "amount_per_income", "transaction_type_encoded",
       "amount" >>

\* columns the row has only under some encoder maps, or never
FeaturesExtra ==
    << "amount", "channel_encoded", "transaction_type_encoded",
       "account_age", "profession_encoded" >>

FeatureLists == {FeaturesFull, FeaturesShuffled, FeaturesExtra}

(***************************************************************************)
(* The two warehouse tables.                                               *)
(***************************************************************************)
\* an identifier as the warehouse column holds it: an INT64 value n, or a
\* STRING value whose text is the decimal numeral of n.  Python's == between
\* an int and a str is False, as is = between the two records.
Id(type, n) == [type |-> type, n |-> n]
IntId(n) == Id("int", n)

Cust(id, seg, inc, ms, prof) ==
    [customer_id |-> id, customer_segment |-> seg, income |-> inc,
     marital_status |-> ms, profession |-> prof]

Tx(id, cid, date, sc, fr, tt) ==
    [transaction_id |-> id, customer_id |-> cid, transaction_date |-> date,
     fraud_score |-> sc, is_fraudulent |-> fr, transaction_type |-> tt,
     merchant_category |-> "grocery", location |-> "SP",
     device_info |-> "mobile", amount |-> 100 * id]

\* two customers of segment 1, with incomes 100 and 200
CustomersA ==
    << Cust(IntId(1), 1, 100, "single", "engineer"),
       Cust(IntId(2), 1, 200, "single", "teacher"),
       Cust(IntId(5), 0, 900, "single", "engineer") >>

\* two rows share customer_id 1; the incomes of segment 2 are 500, 700 and
\* 701, whose mean 633.666... has no two-decimal form
CustomersB ==
    << Cust(IntId(1), 0, 300, "single", "teacher"),
       Cust(IntId(1), 2, 500, "single", "nurse"),
       Cust(IntId(10), 2, 700, "single", "nurse"),
       Cust(IntId(11), 2, 701, "single", "nurse") >>

\* the date of row i (a day number): rows 2 and 4 share a date, and so do
\* rows 16 and 17
TxDate(i) == IF i = 4 THEN 2 ELSE IF i = 17 THEN 16 ELSE i

\* the score of row i of the table without flagged rows, in units of 0.05:
\* rows 8 and 9 share a score, and so do rows 17 and 18
ScoreB(i) == IF i = 8 THEN 9 ELSE IF i = 17 THEN 18 ELSE i

\* the owner of row i: customer 1 owns two rows of three
OwnerA(i) == IF i % 6 = 0 THEN 2 ELSE IF i % 6 = 3 THEN 5 ELSE 1

\* more than ten rows are flagged, more than ten belong to customer 1, and
\* unflagged rows carry scores above flagged ones; two pairs of rows share a
\* date (TxDate), and in TransactionsB two pairs share a score (ScoreB)
TransactionsOf(type) ==
    [i \in 1..NumTransactions |->
        Tx(i, Id(type, OwnerA(i)), TxDate(i), ((i * 7) % 19) * 5000,
           i % 3 # 0,
           IF i % 2 = 0 THEN "ted" ELSE "pix")]

TransactionsA == TransactionsOf("int")

\* no transaction is flagged
TransactionsB ==
    [i \in 1..NumTransactions |->
        Tx(i, IntId(IF i % 4 = 0 THEN 10 ELSE 1), TxDate(i),
           ScoreB(i) * 5000, FALSE,
           IF i % 2 = 0 THEN "doc" ELSE "pix")]

\* the rows of TransactionsA in a table whose customer_id column is STRING
TransactionsS == TransactionsOf("str")

WarehouseA == [customers |-> CustomersA, transactions |-> TransactionsA]

\* a warehouse of one customer and two transactions, one of them flagged
WarehouseSmall ==
    [customers |-> << Cust(IntId(1), 1, 100, "single", "engineer") >>,
     transactions |-> << Tx(1, IntId(1), 1, 45000, TRUE, "pix"),
                         Tx(2, IntId(1), 2, 90000, FALSE, "pix") >>]

Warehouses ==
    { WarehouseA,
      [customers |-> CustomersB, transactions |-> TransactionsB],
      [customers |-> CustomersA, transactions |-> TransactionsS] }

(***************************************************************************)
(* State.                                                                  *)
(***************************************************************************)
VARIABLES
    \* ---- environment (fixed for the life of the process) ----
    secrets,            \* state of the gcp_key entry of st.secrets
    adcOk,              \* bigquery.Client() succeeds with the local gcloud login
    missingFiles,       \* files absent from the models directory
    encodersOnDisk,     \* content of fraud_label_encoders.joblib
    featuresOnDisk,     \* content of fraud_features_names.joblib
    warehouse,          \* the two tables
    source,             \* what is run, one of Sources
    configFirst,        \* the installed Streamlit wants st.set_page_config
                        \* to be the first Streamlit command of a run
    sessions,           \* browser sessions open on the process
    \* ---- process state, kept across runs ----
    now,                \* wall clock, seconds
    modelsCache,        \* st.cache_resource entry of load_models, or NoArtifacts
    customersCache,     \* st.cache_data entry of get_customers_data
    transactionsCache,  \* st.cache_data entry of get_transactions_data
    envCredentials,     \* os.environ["GOOGLE_APPLICATION_CREDENTIALS"] is set
    clientsBuilt,       \* a bigquery.Client was constructed in the process
    keyFile,            \* gcp_credentials_temp.json: "none" (no such file),
                        \* "empty" (opened for writing, the key not yet
                        \* written out) or "key" (the whole key)
    otherPc,            \* position of the other session's run ("idle"
                        \* between two of its runs)
    afterAbort,         \* the previous run was aborted for missing features
    \* ---- state of the current run ----
    pc,                 \* position of the script
    halt,               \* how the last run ended (None while it runs): at an
                        \* st.stop() ("stop_..."), "exception" or "end"
    client,             \* module variable client
    ctorCalls,          \* bigquery.Client(...) calls of this run
    keyRead,            \* what the key file held when line 29 of this run
                        \* read it, or None
    authPaths,          \* authentication paths attempted in this run
    artifacts,          \* result of load_models(), or NoArtifacts
    loadsRun,           \* load_models bodies executed in this run
    customers_df,       \* module variable customers_df (empty until loaded)
    transactions_df,    \* module variable transactions_df (empty until loaded)
    queries,            \* tables queried in this run, in order
    page,               \* value of the navigation radio
    ui,                 \* elements rendered by this run, in order
    new_transaction,    \* the scoring row: [cols, vals], or NoFrame
    X_new_transaction,  \* the frame handed to predict_proba, or NoFrame
    predictCalls,       \* predict_proba calls of this run
    missing_features,   \* names listed by the missing-feature error
    fraud_score,        \* predict_proba result, or NoScore
    customer_id_input,  \* text of the profile view's input
    lookups,            \* tables searched by identifier in this run, in order
    shown_profile,      \* rows of the customer record table
    shown_segment,      \* segment means table (empty if not rendered)
    shown_transactions, \* rows of the transactions table of the view
    shown_metrics,      \* values of the dashboard's transaction metrics
    date_range          \* date range the dashboard is narrowed by, if any

envVars == << secrets, adcOk, missingFiles, encodersOnDisk, featuresOnDisk,
              warehouse, source, configFirst, sessions >>
procVars == << now, modelsCache, customersCache, transactionsCache,
               envCredentials, clientsBuilt, keyFile, otherPc, afterAbort >>
startVars == << client, ctorCalls, keyRead, authPaths, artifacts, loadsRun,
                customers_df, transactions_df, queries >>
viewVars == << page, new_transaction, X_new_transaction, predictCalls,
               missing_features,
               fraud_score, customer_id_input, lookups, shown_profile,
               shown_segment, shown_transactions, shown_metrics,
               date_range >>
vars == << envVars, procVars, startVars, viewVars, pc, halt, ui >>

\* one rendered element: st.<kind>(...), identified by key; arg is a detail
El(kind, key, arg) == [kind |-> kind, key |-> key, arg |-> arg]

Shown(key) == \E i \in 1..Len(ui) : ui[i].key = key
CountShown(keys) == Cardinality({i \in 1..Len(ui) : ui[i].key \in keys})

\* The environments explored.  Each is a deployment the program can run in;
\* to keep the state space within reach they are the plain deployment (a
\* valid key in the secrets store, every artifact file in place, the full
\* encoder map and feature list, the first warehouse, the repaired listing,
\* a Streamlit that accepts line 93, one browser session) and every
\* deployment that differs from it in one respect: the credentials, the
\* files of the models directory, the data (the content of the artifacts
\* and of the warehouse), the source that is run, or the Streamlit
\* installed.  To these are added three deployments with a second browser
\* session, over the small warehouse: the plain one, the one whose feature
\* list names columns the form does not build, and the one that has no
\* gcp_key entry and uses the local gcloud login
PlainEnv ==
    [secrets |-> "ok", adcOk |-> TRUE, missingFiles |-> {},
     encodersOnDisk |-> EncodersFull, featuresOnDisk |-> FeaturesFull,
     warehouse |-> WarehouseA, source |-> "listing", configFirst |-> FALSE,
     sessions |-> 1]

Respects ==
    { {"secrets", "adcOk"}, {"missingFiles"},
      {"encodersOnDisk", "featuresOnDisk", "warehouse"}, {"source"},
      {"configFirst"} }

OneSessionEnvs ==
    {e \in [secrets : SecretsStates, adcOk : BOOLEAN,
            missingFiles : MissingChoices, encodersOnDisk : EncoderMaps,
            featuresOnDisk : FeatureLists, warehouse : Warehouses,
            source : Sources, configFirst : BOOLEAN, sessions : {1}] :
        \E r \in Respects :
            \A f \in DOMAIN PlainEnv \ r : e[f] = PlainEnv[f]}

TwoSessionEnvs ==
    {[PlainEnv EXCEPT !.sessions = 2, !.warehouse = WarehouseSmall,
                      !.secrets = e[1], !.featuresOnDisk = e[2]] :
        e \in {<< "ok", FeaturesFull >>, << "ok", FeaturesExtra >>,
               << "absent", FeaturesFull >>}}

Environments ==
    {e \in OneSessionEnvs \cup TwoSessionEnvs : e.sessions \in SessionCounts}

Init ==
    /\ \E e \in Environments :
          /\ secrets = e.secrets
          /\ adcOk = e.adcOk
          /\ missingFiles = e.missingFiles
          /\ encodersOnDisk = e.encodersOnDisk
          /\ featuresOnDisk = e.featuresOnDisk
          /\ warehouse = e.warehouse
          /\ source = e.source
          /\ configFirst = e.configFirst
          /\ sessions = e.sessions
    /\ now = 0
    /\ modelsCache = NoArtifacts
    /\ customersCache = NoEntry
    /\ transactionsCache = NoEntry
    /\ envCredentials = FALSE
    /\ clientsBuilt = FALSE
    /\ keyFile = "none"
    /\ otherPc = "idle"
    /\ afterAbort = FALSE
    /\ pc = "idle"
    /\ halt = None
    /\ client = None
    /\ ctorCalls = 0
    /\ keyRead = None
    /\ authPaths = {}
    /\ artifacts = NoArtifacts
    /\ loadsRun = 0
    /\ customers_df = << >>
    /\ transactions_df = << >>
    /\ queries = << >>
    /\ page = None
    /\ ui = << >>
    /\ new_transaction = NoFrame
    /\ X_new_transaction = NoFrame
    /\ predictCalls = 0
    /\ missing_features = << >>
    /\ fraud_score = NoScore
    /\ customer_id_input = << >>
    /\ lookups = << >>
    /\ shown_profile = << >>
    /\ shown_segment = << >>
    /\ shown_transactions = << >>
    /\ shown_metrics = NoMetrics
    /\ date_range = << >>

(***************************************************************************)
(* A user interaction (or the first page load) starts a run: the script is *)
(* executed again from line 1 and every module variable is rebound.        *)
(***************************************************************************)
StartRun ==
    /\ pc = "idle"
    /\ pc' = "compile"
    /\ afterAbort' = (halt = "stop_missing_features")
    /\ halt' = None
    /\ client' = None
    /\ ctorCalls' = 0
    /\ keyRead' = None
    /\ authPaths' = {}
    /\ artifacts' = NoArtifacts
    /\ loadsRun' = 0
    /\ customers_df' = << >>
    /\ transactions_df' = << >>
    /\ queries' = << >>
    /\ page' = None
    /\ ui' = << >>
    /\ new_transaction' = NoFrame
    /\ X_new_transaction' = NoFrame
    /\ predictCalls' = 0
    /\ missing_features' = << >>
    /\ fraud_score' = NoScore
    /\ customer_id_input' = << >>
    /\ lookups' = << >>
    /\ shown_profile' = << >>
    /\ shown_segment' = << >>
    /\ shown_transactions' = << >>
    /\ shown_metrics' = NoMetrics
    /\ date_range' = << >>
    /\ UNCHANGED << envVars, now, modelsCache, customersCache,
                    transactionsCache, envCredentials, clientsBuilt, keyFile,
                    otherPc >>

\* the two datasets
Datasets == {"customers", "transactions"}

\* where this session waits: between two runs, and for the answer to a
\* query it has sent
WaitPoints == {"idle", "customers_wait", "transactions_wait"}

\* time passes while the session waits
Tick ==
    /\ pc \in WaitPoints
    /\ now + TickStep <= MaxClock
    /\ now' = now + TickStep
    /\ UNCHANGED << envVars, modelsCache, customersCache, transactionsCache,
                    envCredentials, clientsBuilt, keyFile, otherPc,
                    afterAbort, startVars, viewVars, pc, halt,
                    ui >>

\* variant: the missing-feature abort ends the process instead of the run
EndRun_exit(how) ==
    /\ pc' = IF how = "stop_missing_features" THEN "exited" ELSE "idle"
    /\ halt' = how

\* the run is over: st.stop(), an uncaught exception, or the end of the script;
\* the process lives on and waits for the next interaction
EndRun(how) ==
    /\ pc' = "idle"
    /\ halt' = how

\* Streamlit compiles the script at the start of every run; the file as
\* stored does not compile and the run shows the SyntaxError of line 338
Compile ==
    /\ pc = "compile"
    /\ IF source = "file"
       THEN /\ ui' = Append(ui, El("exception", "syntax_error", ""))
            /\ EndRun("exception")
       ELSE /\ pc' = "auth"
            /\ UNCHANGED << ui, halt >>
    /\ UNCHANGED << envVars, procVars, startVars, viewVars >>

(***************************************************************************)
(* Lines 14-51: the client authentication block.  Every run of every       *)
(* session writes the key to the same file, gcp_credentials_temp.json in   *)
(* the working directory of the process, and bigquery.Client() reads the   *)
(* file named by GOOGLE_APPLICATION_CREDENTIALS; nothing orders the write  *)
(* of one session's run and the read of another's.                         *)
(***************************************************************************)
\* variant: the except branch retries with the local gcloud login
SecretsClient_fallback(st, file) ==
    IF (st = "ok" /\ file = "key") \/ adcOk THEN "Client" ELSE None

\* line 29 in the try block of the gcp_key branch: the client it leaves, by
\* secrets state and by what the key file holds when Client() reads it
SecretsClient(st, file) ==
    IF st = "ok" /\ file = "key" THEN "Client" ELSE None

\* variant: no fallback to the local gcloud login
AuthBranch_nofallback(st) == "secrets"

\* the branch taken on "gcp_key" in st.secrets
AuthBranch(st) == IF st # "absent" THEN "secrets" ELSE "gcloud"

\* elements rendered by the branch, given the client it left
AuthMessages(branch, c) ==
    IF branch = "secrets"
    THEN IF c # None
         THEN << El("success", "secrets_loaded", "") >>
         ELSE << El("error", "secrets_error", ""),
                 El("info", "secrets_hint", "") >>
    ELSE << El("warning", "secrets_absent", "") >>
         \o IF c # None
            THEN << El("success", "gcloud_ok", "") >>
            ELSE << El("error", "gcloud_error", ""),
                    El("info", "gcloud_hint", "") >>

\* variant: the check of the client handle is left out
ClientIsNone_never(c) == FALSE

\* if client is None: st.error(...); st.stop()
ClientIsNone(c) == c = None

\* the end of the block: the branch has left client c, having reached
\* bigquery.Client(...) or not (ctor); lines 30-51
AuthEnd(branch, c, ctor) ==
    /\ client' = c
    /\ ctorCalls' = ctorCalls + (IF ctor THEN 1 ELSE 0)
    /\ clientsBuilt' = (clientsBuilt \/ (ctor /\ c # None))
    /\ IF ClientIsNone(c)
       THEN /\ ui' = ui \o AuthMessages(branch, c)
                      \o << El("error", "no_auth", "") >>
            /\ EndRun("stop_no_auth")
       ELSE /\ ui' = ui \o AuthMessages(branch, c)
            /\ pc' = "models"
            /\ UNCHANGED halt

\* lines 14-25, or the whole of the else branch of line 39: a run with a
\* gcp_key entry parses it and opens the key file for writing, which empties
\* the file; json.loads or open may raise
Authenticate ==
    /\ pc = "auth"
    /\ LET branch == AuthBranch(secrets)
       IN /\ authPaths' = authPaths \cup {branch}
          /\ IF branch = "gcloud"
             THEN /\ AuthEnd(branch, IF adcOk THEN "Client" ELSE None, TRUE)
                  /\ UNCHANGED keyFile
             ELSE IF secrets \in {"bad_json", "unwritable"}
             THEN /\ AuthEnd(branch, None, FALSE)
                  /\ UNCHANGED keyFile
             ELSE /\ keyFile' = "empty"
                  /\ pc' = "dump"
                  /\ UNCHANGED << client, ctorCalls, clientsBuilt, ui, halt >>
    /\ UNCHANGED << envVars, now, modelsCache, customersCache,
                    transactionsCache, envCredentials, otherPc, afterAbort,
                    keyRead, artifacts, loadsRun,
                    customers_df, transactions_df, queries, viewVars >>

\* line 26 and the end of the with block: the key is written out
DumpKey ==
    /\ pc = "dump"
    /\ keyFile' = "key"
    /\ pc' = "client"
    /\ UNCHANGED << envVars, now, modelsCache, customersCache,
                    transactionsCache, envCredentials, clientsBuilt,
                    otherPc, afterAbort, startVars,
                    viewVars, halt, ui >>

\* lines 28-51: the environment variable is set and bigquery.Client() reads
\* the key file as it is at that moment
BuildClient ==
    /\ pc = "client"
    /\ envCredentials' = TRUE
    /\ keyRead' = keyFile
    /\ AuthEnd("secrets", SecretsClient(secrets, keyFile), TRUE)
    /\ UNCHANGED << envVars, now, modelsCache, customersCache,
                    transactionsCache, keyFile, otherPc,
                    afterAbort, authPaths, artifacts, loadsRun,
                    customers_df, transactions_df, queries, viewVars >>

(***************************************************************************)
(* Lines 58-76: load_models, memoized by st.cache_resource.                *)
(***************************************************************************)
\* the first file joblib.load does not find, in load order; None if all exist
RECURSIVE FirstMissingFrom(_, _)
FirstMissingFrom(i, missing) ==
    IF i > Len(ArtifactFiles) THEN None
    ELSE IF ArtifactFiles[i] \in missing THEN ArtifactFiles[i]
    ELSE FirstMissingFrom(i + 1, missing)

\* variant: only the first joblib.load is guarded
FirstMissing_firstonly(missing) ==
    IF ArtifactFiles[1] \in missing THEN ArtifactFiles[1] ELSE None

FirstMissing(missing) == FirstMissingFrom(1, missing)

\* the tuple load_models returns
LoadedArtifacts ==
    [model_fraud_detection |-> "fraud_detection_model",
     kmeans_model |-> "kmeans_segmentation_model",
     scaler |-> "scaler",
     fraud_encoders |-> encodersOnDisk,
     customer_encoders |-> "customer_label_encoders",
     fraud_features_names |-> featuresOnDisk]

\* line 76: load_models(), the lookup of the st.cache_resource entry.  As
\* for the dataset loaders below, no lock is held from the lookup to the
\* store: a call that finds no entry runs the body, whatever another run
\* stores meanwhile
LoadModels ==
    /\ pc = "models"
    /\ IF modelsCache # NoArtifacts
       THEN \* cache hit: the body is not executed
            /\ artifacts' = modelsCache
            /\ pc' = "customers"
            /\ UNCHANGED loadsRun
       ELSE /\ loadsRun' = loadsRun + 1
            /\ pc' = "models_load"
            /\ UNCHANGED artifacts
    /\ UNCHANGED << envVars, procVars, client, ctorCalls, keyRead,
                    authPaths, customers_df, transactions_df, queries,
                    viewVars, halt, ui >>

\* lines 60-75: the body of load_models, the six joblib.load calls and the
\* store of the tuple returned, which replaces whatever the entry holds
LoadModelsBody ==
    /\ pc = "models_load"
    /\ IF FirstMissing(missingFiles) # None
       THEN \* except FileNotFoundError: st.error(...); st.stop()
            /\ ui' = Append(ui, El("error", "models_not_found",
                                   FirstMissing(missingFiles)))
            /\ EndRun("stop_models")
            /\ UNCHANGED << modelsCache, artifacts >>
       ELSE /\ modelsCache' = LoadedArtifacts
            /\ artifacts' = LoadedArtifacts
            /\ pc' = "customers"
            /\ UNCHANGED << ui, halt >>
    /\ UNCHANGED << envVars, now, customersCache, transactionsCache,
                    envCredentials, clientsBuilt, keyFile, otherPc,
                    afterAbort, client, ctorCalls, keyRead,
                    authPaths, loadsRun, customers_df, transactions_df,
                    queries, viewVars >>

(***************************************************************************)
(* Lines 79-90: the two dataset loaders, memoized by st.cache_data with a  *)
(* time to live of ttl seconds.                                            *)
(***************************************************************************)
\* variant: a cached copy never expires
Fresh_noexpiry(entry, t) == entry.valid

\* a cache entry can be served: it exists and is younger than ttl
Fresh(entry, t) == entry.valid /\ t - entry.at < ttl

\* .to_dataframe(): the rows of the answer get the labels 0, 1, 2, ... (a
\* RangeIndex), kept here in the field "index"; a row carries its label
\* through every filter and sort
to_dataframe(rows) ==
    [i \in 1..Len(rows) |-> [index |-> i - 1] @@ rows[i]]

\* client.query(query).to_dataframe(), as st.cache_data stores it: the
\* entry is stamped with the time of the store
QueryResult(table) ==
    [valid |-> TRUE, at |-> now, df |-> to_dataframe(warehouse[table])]

\* the entry of a dataset
CacheOf(d) == IF d = "customers" THEN customersCache ELSE transactionsCache

\* A call of a loader looks its entry up and, finding none in date, runs
\* the body: it sends the query, waits for the answer and stores it.  The
\* steps are taken as they come, with no lock held from the lookup to the
\* store (the st.cache_data of the first releases that have it; a later
\* one, which serializes the computations of one entry, allows fewer
\* interleavings and none that is not among these).

\* line 89: customers_df = get_customers_data(), the lookup of the entry
GetCustomersData ==
    /\ pc = "customers"
    /\ IF Fresh(customersCache, now)
       THEN /\ customers_df' = customersCache.df
            /\ pc' = "transactions"
       ELSE /\ pc' = "customers_send"
            /\ UNCHANGED customers_df
    /\ UNCHANGED << envVars, procVars, client, ctorCalls, keyRead, authPaths,
                    artifacts, loadsRun, transactions_df, queries, viewVars,
                    halt, ui >>

\* line 81: client.query(query), the query is sent
CustomersQuery ==
    /\ pc = "customers_send"
    /\ queries' = Append(queries, "customers")
    /\ pc' = "customers_wait"
    /\ UNCHANGED << envVars, procVars, client, ctorCalls, keyRead, authPaths,
                    artifacts, loadsRun, customers_df, transactions_df,
                    viewVars, halt, ui >>

\* the answer to the query of line 81 arrives and is stored whatever the
\* entry holds by then, or the query raises and the run ends on the
\* exception
CustomersAnswer ==
    /\ pc = "customers_wait"
    /\ \E answered \in BOOLEAN :
          IF answered
          THEN /\ customersCache' = QueryResult("customers")
               /\ customers_df' = customersCache'.df
               /\ pc' = "transactions"
               /\ UNCHANGED << ui, halt >>
          ELSE /\ ui' = Append(ui, El("exception", "query_failed", ""))
               /\ EndRun("exception")
               /\ UNCHANGED << customersCache, customers_df >>
    /\ UNCHANGED << envVars, now, modelsCache, transactionsCache,
                    envCredentials, clientsBuilt, keyFile, otherPc,
                    afterAbort, client, ctorCalls, keyRead, authPaths,
                    artifacts, loadsRun, transactions_df, queries,
                    viewVars >>

\* line 90: transactions_df = get_transactions_data(), the lookup
GetTransactionsData ==
    /\ pc = "transactions"
    /\ IF Fresh(transactionsCache, now)
       THEN /\ transactions_df' = transactionsCache.df
            /\ pc' = "config"
       ELSE /\ pc' = "transactions_send"
            /\ UNCHANGED transactions_df
    /\ UNCHANGED << envVars, procVars, client, ctorCalls, keyRead, authPaths,
                    artifacts, loadsRun, customers_df, queries, viewVars,
                    halt, ui >>

\* line 86: client.query(query), the query is sent
TransactionsQuery ==
    /\ pc = "transactions_send"
    /\ queries' = Append(queries, "transactions")
    /\ pc' = "transactions_wait"
    /\ UNCHANGED << envVars, procVars, client, ctorCalls, keyRead, authPaths,
                    artifacts, loadsRun, customers_df, transactions_df,
                    viewVars, halt, ui >>

\* the answer to the query of line 86 arrives and is stored, or the query
\* raises
TransactionsAnswer ==
    /\ pc = "transactions_wait"
    /\ \E answered \in BOOLEAN :
          IF answered
          THEN /\ transactionsCache' = QueryResult("transactions")
               /\ transactions_df' = transactionsCache'.df
               /\ pc' = "config"
               /\ UNCHANGED << ui, halt >>
          ELSE /\ ui' = Append(ui, El("exception", "query_failed", ""))
               /\ EndRun("exception")
               /\ UNCHANGED << transactionsCache, transactions_df >>
    /\ UNCHANGED << envVars, now, modelsCache, customersCache,
                    envCredentials, clientsBuilt, keyFile, otherPc,
                    afterAbort, client, ctorCalls, keyRead, authPaths,
                    artifacts, loadsRun, customers_df, queries, viewVars >>

(***************************************************************************)
(* The other browser session.  Its runs execute the same script in the     *)
(* same process, on a thread of their own: each step below is a line of    *)
(* the script reached by its run, taken at any moment of this session's    *)
(* life, before this session's first run as well as during or after any    *)
(* of its runs.  The steps followed are the ones that read or write what   *)
(* the process shares: the key file, the environment variable and the      *)
(* three caches.  What its run renders goes to its own browser.            *)
(***************************************************************************)
\* Lines 14-25 of a run of the other session, or the whole of the else
\* branch of line 39.  A run that ends before it has touched anything
\* shared (the source does not compile, json.loads or open raises, the
\* local gcloud login fails) leaves no trace here
OtherSessionStarts ==
    /\ sessions > 1
    /\ source = "listing"
    /\ otherPc = "idle"
    /\ IF AuthBranch(secrets) = "gcloud"
       THEN \* line 43 constructs a client
            /\ adcOk
            /\ clientsBuilt' = TRUE
            /\ otherPc' = "models"
            /\ UNCHANGED keyFile
       ELSE /\ secrets \in {"ok", "bad_client"}
            /\ keyFile' = "empty"
            /\ otherPc' = "dump"
            /\ UNCHANGED clientsBuilt
    /\ UNCHANGED << envVars, now, modelsCache, customersCache,
                    transactionsCache, envCredentials, afterAbort,
                    startVars, viewVars, pc, halt, ui >>

\* line 26 of the other session's run
OtherSessionDumpsKey ==
    /\ otherPc = "dump"
    /\ keyFile' = "key"
    /\ otherPc' = "client"
    /\ UNCHANGED << envVars, now, modelsCache, customersCache,
                    transactionsCache, envCredentials, clientsBuilt,
                    afterAbort, startVars, viewVars, pc, halt, ui >>

\* lines 28-51 of the other session's run: its Client() reads the key file
\* as it is at that moment, and its run stops at line 51 with no client
OtherSessionBuildsClient ==
    /\ otherPc = "client"
    /\ envCredentials' = TRUE
    /\ clientsBuilt' =
          (clientsBuilt \/ ~ClientIsNone(SecretsClient(secrets, keyFile)))
    /\ otherPc' = IF ClientIsNone(SecretsClient(secrets, keyFile))
                  THEN "idle" ELSE "models"
    /\ UNCHANGED << envVars, now, modelsCache, customersCache,
                    transactionsCache, keyFile, afterAbort, startVars,
                    viewVars, pc, halt, ui >>

\* line 76 of the other session's run: load_models(), the lookup
OtherSessionLoadsModels ==
    /\ otherPc = "models"
    /\ otherPc' = IF modelsCache # NoArtifacts THEN "customers"
                  ELSE "models_load"
    /\ UNCHANGED << envVars, now, modelsCache, customersCache,
                    transactionsCache, envCredentials, clientsBuilt, keyFile,
                    afterAbort, startVars, viewVars, pc, halt, ui >>

\* lines 60-75 of the other session's run: the body of load_models and the
\* store, or the st.stop() of line 75
OtherSessionLoadsBody ==
    /\ otherPc = "models_load"
    /\ IF FirstMissing(missingFiles) # None
       THEN /\ otherPc' = "idle"
            /\ UNCHANGED modelsCache
       ELSE /\ modelsCache' = LoadedArtifacts
            /\ otherPc' = "customers"
    /\ UNCHANGED << envVars, now, customersCache, transactionsCache,
                    envCredentials, clientsBuilt, keyFile, afterAbort,
                    startVars, viewVars, pc, halt, ui >>

\* where the other session's run goes after the loader call of dataset d;
\* from line 93 on it touches nothing the process shares
OtherAfter(d) == IF d = "customers" THEN "transactions" ELSE "idle"

\* lines 89 and 90 of the other session's run: the lookup; on a miss the
\* body runs and the query is sent
OtherSessionLooksUp ==
    /\ otherPc \in Datasets
    /\ otherPc' = IF Fresh(CacheOf(otherPc), now)
                  THEN OtherAfter(otherPc)
                  ELSE otherPc \o "_wait"
    /\ UNCHANGED << envVars, now, modelsCache, customersCache,
                    transactionsCache, envCredentials, clientsBuilt, keyFile,
                    afterAbort, startVars, viewVars, pc, halt, ui >>

\* the answer to the other session's query arrives and is stored whatever
\* the entry holds by then, or the query raises and its run ends
OtherSessionAnswer ==
    /\ otherPc \in {"customers_wait", "transactions_wait"}
    /\ \E answered \in BOOLEAN :
          IF ~answered
          THEN /\ otherPc' = "idle"
               /\ UNCHANGED << customersCache, transactionsCache >>
          ELSE IF otherPc = "customers_wait"
          THEN /\ customersCache' = QueryResult("customers")
               /\ otherPc' = OtherAfter("customers")
               /\ UNCHANGED transactionsCache
          ELSE /\ transactionsCache' = QueryResult("transactions")
               /\ otherPc' = OtherAfter("transactions")
               /\ UNCHANGED customersCache
    /\ UNCHANGED << envVars, now, modelsCache, envCredentials, clientsBuilt,
                    keyFile, afterAbort, startVars, viewVars, pc, halt, ui >>

\* line 93: st.set_page_config(...).  Every run that gets here has rendered
\* an element in the authentication block (line 30, or 40), so a Streamlit
\* that wants the call to come first raises StreamlitAPIException; one that
\* accepts it anywhere goes on
PageConfig ==
    /\ pc = "config"
    /\ IF configFirst
       THEN /\ ui' = Append(ui, El("exception", "set_page_config", ""))
            /\ EndRun("exception")
       ELSE /\ pc' = "view"
            /\ UNCHANGED << ui, halt >>
    /\ UNCHANGED << envVars, procVars, startVars, viewVars >>

\* lines 94-99: title, introduction, sidebar title and navigation radio
PageHead ==
    << El("title", "app_title", ""), El("markdown", "welcome", ""),
       El("title", "sidebar_title", ""), El("radio", "navigation", "") >>

\* variant: the first two branches of the if/elif chain test each other's
\* title
Pages_swapped ==
    << "Analise de Transacao (Simulacao)", "Visao Geral do Dashboard",
       "Perfil do Cliente" >>

\* the options of st.sidebar.radio (written here without diacritics)
Pages == << "Visao Geral do Dashboard", "Analise de Transacao (Simulacao)",
            "Perfil do Cliente" >>

(***************************************************************************)
(* DataFrame helpers.  A table is a sequence of rows (records); a one-row  *)
(* frame with dynamic columns is [cols |-> order of columns, vals |-> row].*)
(***************************************************************************)
\* df[df[col] == v]
RECURSIVE Where(_, _, _)
Where(df, col, v) ==
    IF df = << >> THEN << >>
    ELSE (IF Head(df)[col] = v THEN << Head(df) >> ELSE << >>)
         \o Where(Tail(df), col, v)

\* df[col].unique(): distinct values (as a set; the order plays no part)
Unique(df, col) == {df[i][col] : i \in 1..Len(df)}

\* the ways to insert row r into a sequence sorted descending by col: at any
\* place that keeps it sorted, on either side of the rows with an equal key
InsertDesc(sorted, r, col) ==
    {SubSeq(sorted, 1, k) \o << r >> \o SubSeq(sorted, k + 1, Len(sorted)) :
        k \in {n \in 0..Len(sorted) :
                 /\ \A i \in 1..n : sorted[i][col] >= r[col]
                 /\ \A i \in (n + 1)..Len(sorted) : sorted[i][col] <= r[col]}}

\* df.sort_values(by=col, ascending=False): the default kind='quicksort' is
\* not stable, so rows with equal keys may come out in any order; the
\* result is one of the orderings of the rows that descend by col
RECURSIVE SortDesc(_, _)
SortDesc(df, col) ==
    IF df = << >> THEN {<< >>}
    ELSE UNION {InsertDesc(sorted, df[Len(df)], col) :
                   sorted \in SortDesc(SubSeq(df, 1, Len(df) - 1), col)}

\* df[cols] of a table: the columns named, and the labels of the rows
Project(df, cols) ==
    IF df = << >> THEN << >>
    ELSE [i \in 1..Len(df) |->
            [c \in Range(cols) \cup {"index"} |-> df[i][c]]]

\* df.head(n)
HeadN(df, n) == SubSeq(df, 1, IF Len(df) < n THEN Len(df) ELSE n)

\* df[c] = v on a one-row frame: a new column goes last, an old one keeps its place
SetCol(df, c, v) ==
    [cols |-> IF c \in Range(df.cols) THEN df.cols ELSE Append(df.cols, c),
     vals |-> (c :> v) @@ df.vals]

\* [f for f in names if f in cols]
RECURSIVE Present(_, _)
Present(names, cols) ==
    IF names = << >> THEN << >>
    ELSE (IF Head(names) \in Range(cols) THEN << Head(names) >> ELSE << >>)
         \o Present(Tail(names), cols)

\* variant: the roles of the two lists are exchanged
Absent_swapped(names, cols) ==
    SelectSeq(cols, LAMBDA f : f \notin Range(names))

\* [f for f in names if f not in cols]
RECURSIVE Absent(_, _)
Absent(names, cols) ==
    IF names = << >> THEN << >>
    ELSE (IF Head(names) \notin Range(cols) THEN << Head(names) >> ELSE << >>)
         \o Absent(Tail(names), cols)

\* variant: the frame is passed on as it is, neither narrowed nor reordered
Reindex_keep(df, names) == df

\* df[names] on a one-row frame whose columns include every name
Reindex(df, names) ==
    [cols |-> names, vals |-> [c \in Range(names) |-> df.vals[c]]]

(***************************************************************************)
(* Segment means: customers_df.groupby('customer_segment')[...].mean().    *)
(* Of the listed attributes the modelled customer table has 'income'; the  *)
(* others are dropped by existing_features_for_segmentation.  The mean of  *)
(* a group is kept exact, as the pair of the sum and the count; the tables *)
(* shown hold it rounded to two decimals, in hundredths.                   *)
(***************************************************************************)
RECURSIVE SumCol(_, _)
SumCol(df, col) ==
    IF df = << >> THEN 0 ELSE Head(df)[col] + SumCol(Tail(df), col)

\* variant: the mean is taken over all customers, not over the group
SegmentRows_all(df, seg) == df

\* the rows of one group of groupby('customer_segment')
SegmentRows(df, seg) == Where(df, "customer_segment", seg)

segment_analysis(df) ==
    [seg \in Unique(df, "customer_segment") |->
        [income_sum |-> SumCol(SegmentRows(df, seg), "income"),
         count |-> Len(SegmentRows(df, seg))]]

\* .round(2) of the mean sum/count, in hundredths.  numpy scales the float
\* by 100, rounds it half to even and scales it back.  A mean that is a
\* multiple of 1/8 is held exactly by the float, so a tie at the third
\* decimal is seen as a tie and goes to the even neighbour; any other such
\* tie (2.675, say) is held a little below or above and comes out as either
\* neighbour, depending on the bits
Round2(sum, count) ==
    LET q == (100 * sum) \div count
        r == (100 * sum) % count
    IN IF 2 * r < count THEN {q}
       ELSE IF 2 * r > count THEN {q + 1}
       ELSE IF (8 * sum) % count = 0 THEN {IF q % 2 = 0 THEN q ELSE q + 1}
       ELSE {q, q + 1}

\* the label 'Renda Média' the column income is shown under (written here
\* without diacritics)
RendaMedia == "Renda Media"

\* segment_analysis.rename(columns=...).round(2), lines 142-157: the tables
\* that may be shown, one for each outcome of the rounding
segment_analysis_display(df) ==
    LET means == segment_analysis(df)
        segs == DOMAIN means
        rounded == [seg \in segs |->
                       Round2(means[seg].income_sum, means[seg].count)]
    IN {[seg \in segs |-> (RendaMedia :> f[seg])] :
           f \in {g \in [segs -> UNION {rounded[seg] : seg \in segs}] :
                    \A seg \in segs : g[seg] \in rounded[seg]}}

\* segment_analysis.loc[segment].to_frame().T.rename(columns=...).round(2),
\* lines 310-323: the one row of the customer's segment
segment_analysis_display_single(df, segment) ==
    {(segment :> t[segment]) : t \in segment_analysis_display(df)}

(***************************************************************************)
(* Lines 102-170: the dashboard view.                                      *)
(***************************************************************************)
\* the columns the transactions tables are shown with (lines 167, 170, 332)
DisplayColumns ==
    << "transaction_date", "amount", "transaction_type", "merchant_category",
       "fraud_score", "is_fraudulent" >>

\* variant: the table is always taken from the whole dataset
fraudulent_transactions_display_all(df) ==
    {Project(HeadN(sorted, TopN), DisplayColumns) :
        sorted \in SortDesc(df, "fraud_score")}

\* the tables that may come under "Top 10 por Pontuacao" (one for each
\* outcome of the sort): of the flagged rows if there are any, with the six
\* columns of lines 167 and 170
fraudulent_transactions_display(df) ==
    LET flagged == Where(df, "is_fraudulent", TRUE)
    IN IF flagged # << >>
       THEN {Project(HeadN(sorted, TopN), DisplayColumns) :
                sorted \in SortDesc(flagged, "fraud_score")}
       ELSE {Project(HeadN(sorted, TopN), DisplayColumns) :
                sorted \in SortDesc(df, "fraud_score")}

\* the view computed over the transactions df; range is the narrowing applied
\* to get df (none in the script)
DashboardOn(df, range) ==
    /\ page' = Pages[1]
    /\ date_range' = range
    /\ shown_metrics' =
          [total |-> Len(df),
           fraudulent |-> Len(Where(df, "is_fraudulent", TRUE))]
    /\ LET flagged == Where(df, "is_fraudulent", TRUE)
       IN ui' = ui \o PageHead
                \o << El("metric", "total_transactions", ""),
                      El("metric", "fraudulent_transactions", ""),
                      El("metric", "total_customers", ""),
                      El("dataframe", "segment_analysis", "") >>
                \o (IF flagged = << >>
                    THEN << El("info", "no_flagged_transactions", "") >>
                    ELSE << >>)
                \o << El("dataframe", "top_transactions", "") >>
    /\ shown_segment' \in segment_analysis_display(customers_df)
    /\ shown_transactions' \in fraudulent_transactions_display(df)
    /\ EndRun("end")
    /\ UNCHANGED << envVars, procVars, startVars, new_transaction,
                    X_new_transaction, predictCalls, missing_features,
                    fraud_score, customer_id_input, lookups,
                    shown_profile >>

Dashboard ==
    /\ pc = "view"
    /\ DashboardOn(transactions_df, << >>)

(***************************************************************************)
(* Lines 174-272: the transaction simulator view.                          *)
(***************************************************************************)
\* .head(15), .head(15) and .head(20) of lines 180-182
TopMerchants == 15
TopLocations == 15
TopProfessions == 20

\* df[col].value_counts().head(n).index: the n most frequent values of the
\* column (all of them if there are fewer); between values that are equally
\* frequent at the cut the choice is open, hence a set of option sets
TopValues(df, col, n) ==
    LET all == Unique(df, col)
        size == IF Cardinality(all) < n THEN Cardinality(all) ELSE n
    IN {top \in SUBSET all :
           /\ Cardinality(top) = size
           /\ \A v \in top : \A w \in all \ top :
                 Len(Where(df, col, v)) >= Len(Where(df, col, w))}

\* values offered by st.number_input / st.slider, as the user may set them
AmountInputs == {0, 1000}
IncomeInputs == {0, 2000}
\* defaults of the widgets that take no part in any branch
DefaultBalance == 20000
DefaultHour == 15
DefaultDayOfWeek == 2
DefaultAge == 30

\* the columns of the literal row of lines 210-225, in order
RowColumns ==
    << "amount", "income", "balance", "transaction_hour",
       "transaction_day_of_week", "customer_age_at_transaction",
       "transaction_type", "merchant_category", "location", "device_info",
       "account_type", "marital_status", "profession", "customer_segment" >>

\* pd.DataFrame([{...}])
NewTransaction(amount, income, ttype, merchant, loc, device, marital, prof) ==
    [cols |-> RowColumns,
     vals |-> [amount |-> amount, income |-> income,
               balance |-> DefaultBalance, transaction_hour |-> DefaultHour,
               transaction_day_of_week |-> DefaultDayOfWeek,
               customer_age_at_transaction |-> DefaultAge,
               transaction_type |-> ttype, merchant_category |-> merchant,
               location |-> loc, device_info |-> device,
               account_type |-> "Unknown", marital_status |-> marital,
               profession |-> prof, customer_segment |-> 0]]

\* variant: the small constant is not added to the income
AmountPerIncome_noepsilon(amount, income) ==
    [num |-> amount * 1000000, den |-> income * 1000000]

\* amount / (income + 1e-6), exact, as numerator and denominator in millionths
AmountPerIncome(amount, income) ==
    [num |-> amount * 1000000, den |-> income * 1000000 + 1]

\* position of v in classes (1-based), 0 if v is not a class
RECURSIVE IndexFrom(_, _, _)
IndexFrom(classes, v, i) ==
    IF i > Len(classes) THEN 0
    ELSE IF classes[i] = v THEN i
    ELSE IndexFrom(classes, v, i + 1)

\* encoder.transform([v]) raises ValueError: v is a previously unseen label
Unseen(classes, v) == IndexFrom(classes, v, 1) = 0

\* variant: codes counted from 1
Transform_onebased(classes, v) == IndexFrom(classes, v, 1)

\* encoder.transform([v])[0] for a seen label: its 0-based position
Transform(classes, v) == IndexFrom(classes, v, 1) - 1

\* the name of the encoded column: f'{col}_encoded'
EncodedName(col) == col \o "_encoded"

\* variant: the unseen value is replaced without a warning
EncodeOne_silent(st, enc) ==
    IF enc.col \in Range(st.df.cols) /\ ~Unseen(enc.classes, st.df.vals[enc.col])
    THEN [df |-> SetCol(st.df, EncodedName(enc.col),
                        IndexFrom(enc.classes, st.df.vals[enc.col], 1) - 1),
          out |-> st.out]
    ELSE [df |-> SetCol(st.df, EncodedName(enc.col), Sentinel),
          out |-> st.out]

\* variant: an encoder whose column the row lacks is skipped
EncodeOne_skip(st, enc) ==
    IF enc.col \in Range(st.df.cols)
    THEN IF Unseen(enc.classes, st.df.vals[enc.col])
         THEN [df |-> SetCol(st.df, EncodedName(enc.col), Sentinel),
               out |-> Append(st.out, El("warning", "unseen_value", enc.col))]
         ELSE [df |-> SetCol(st.df, EncodedName(enc.col),
                             Transform(enc.classes, st.df.vals[enc.col])),
               out |-> st.out]
    ELSE st

\* one iteration of the loop of lines 231-242, on the pair [df, out]
EncodeOne(st, enc) ==
    IF enc.col \in Range(st.df.cols)
    THEN IF Unseen(enc.classes, st.df.vals[enc.col])
         THEN [df |-> SetCol(st.df, EncodedName(enc.col), Sentinel),
               out |-> Append(st.out, El("warning", "unseen_value", enc.col))]
         ELSE [df |-> SetCol(st.df, EncodedName(enc.col),
                             Transform(enc.classes, st.df.vals[enc.col])),
               out |-> st.out]
    ELSE [df |-> SetCol(st.df, EncodedName(enc.col), Sentinel),
          out |-> st.out]

\* for col, encoder in fraud_encoders.items(): ...
RECURSIVE EncodeLoop(_, _)
EncodeLoop(st, encoders) ==
    IF encoders = << >> THEN st
    ELSE EncodeLoop(EncodeOne(st, Head(encoders)), Tail(encoders))

\* not all(f in X_new_transaction.columns for f in fraud_features_names)
FeaturesMissing(xcols, names) ==
    \E i \in 1..Len(names) : names[i] \notin Range(xcols)

\* the selection of line 247: the expected names the row has, in expected order
SelectFeatures(names, cols) == Present(names, cols)

\* variant: strict comparisons
RiskTier_strict(score) ==
    IF score > HighThreshold THEN "high"
    ELSE IF score > MediumThreshold THEN "medium"
    ELSE "low"

\* the if / elif / else of lines 264-272
RiskTier(score) ==
    IF score >= HighThreshold THEN "high"
    ELSE IF score >= MediumThreshold THEN "medium"
    ELSE "low"

TierElement(tier) ==
    IF tier = "high" THEN El("error", "ALTO RISCO", "")
    ELSE IF tier = "medium" THEN El("warning", "MEDIO RISCO", "")
    ELSE El("success", "BAIXO RISCO", "")

TierKeys == {"ALTO RISCO", "MEDIO RISCO", "BAIXO RISCO"}

\* probabilities predict_proba may return, in 1/ScoreScale
ScoreOutputs == {0, 39999, 40000, 79999, 80000, 100000}

\* the form is rendered and the submit button was not pressed
SimulatorIdle ==
    /\ pc = "view"
    /\ page' = Pages[2]
    /\ ui' = ui \o PageHead \o << El("form", "transaction_form", "") >>
    /\ EndRun("end")
    /\ UNCHANGED << envVars, procVars, startVars, new_transaction,
                    X_new_transaction, predictCalls, missing_features,
                    fraud_score, customer_id_input, lookups,
                    shown_profile, shown_segment, shown_transactions,
                    shown_metrics, date_range >>

\* variant: the cached feature list is edited in place (its last name is
\* popped), which changes the object st.cache_resource hands to later runs
SubmitFrame_inplace ==
    /\ artifacts' =
          [artifacts EXCEPT !.fraud_features_names =
              SubSeq(@, 1, Len(@) - 1)]
    /\ modelsCache' = artifacts'
    /\ UNCHANGED << envVars, now, customersCache, transactionsCache,
                    envCredentials, clientsBuilt, keyFile, otherPc,
                    afterAbort, client,
                    ctorCalls, keyRead, authPaths, loadsRun, customers_df,
                    transactions_df, queries, customer_id_input, lookups,
                    shown_profile, shown_segment, shown_transactions,
                    shown_metrics, date_range >>

\* lines 208-272 assign new_transaction, X_new_transaction and fraud_score
\* only: the datasets, the artifacts and the caches are read, never written
SubmitFrame ==
    UNCHANGED << envVars, procVars, startVars, customer_id_input,
                 lookups, shown_profile, shown_segment,
                 shown_transactions, shown_metrics, date_range >>

\* the form is submitted: lines 208-272
SimulatorSubmit ==
    /\ pc = "view"
    /\ page' = Pages[2]
    /\ \E amount \in AmountInputs, income \in IncomeInputs,
          ttype \in Unique(transactions_df, "transaction_type"),
          top_merchant_categories \in
              TopValues(transactions_df, "merchant_category", TopMerchants),
          top_locations \in
              TopValues(transactions_df, "location", TopLocations),
          top_professions \in
              TopValues(customers_df, "profession", TopProfessions),
          device \in Unique(transactions_df, "device_info"),
          marital \in Unique(customers_df, "marital_status"),
          proba \in ScoreOutputs :
      \E merchant \in top_merchant_categories, loc \in top_locations,
         prof \in top_professions :
        LET row0 == NewTransaction(amount, income, ttype, merchant, loc,
                                   device, marital, prof)
            row1 == SetCol(row0, "amount_per_income",
                           AmountPerIncome(amount, income))
            enc == EncodeLoop([df |-> row1, out |-> << >>],
                              artifacts.fraud_encoders)
            names == artifacts.fraud_features_names
            xcols == SelectFeatures(names, enc.df.cols)
            head == ui \o PageHead
                    \o << El("form", "transaction_form", "") >> \o enc.out
        IN /\ new_transaction' = enc.df
           /\ IF FeaturesMissing(xcols, names)
              THEN \* line 247 has bound X_new_transaction to the columns found
                   /\ X_new_transaction' = Reindex(enc.df, xcols)
                   /\ missing_features' = Absent(names, xcols)
                   /\ ui' = Append(head, El("error", "missing_features", ""))
                   /\ EndRun("stop_missing_features")
                   /\ UNCHANGED << predictCalls, fraud_score >>
              ELSE /\ X_new_transaction' =
                        Reindex(Reindex(enc.df, xcols), names)
                   /\ predictCalls' = predictCalls + 1
                   /\ fraud_score' = proba
                   /\ ui' = head
                        \o << El("subheader", "result", ""),
                              El("write", "fraud_score", ""),
                              TierElement(RiskTier(proba)),
                              El("write", "tier_advice", RiskTier(proba)) >>
                   /\ EndRun("end")
                   /\ UNCHANGED missing_features
    /\ SubmitFrame

(***************************************************************************)
(* Lines 275-339: the customer profile view.                               *)
(***************************************************************************)
\* a text is the sequence of the code points of its characters

\* the characters int() ignores at both ends of its argument: the ASCII
\* blanks HT LF VT FF CR SP and the white space beyond ASCII (NEL, NBSP,
\* U+1680, U+2000..U+200A, U+2028, U+2029, U+202F, U+205F, U+3000); the
\* separators U+001C..U+001F are not among them
Whitespace ==
    {9, 10, 11, 12, 13, 32, 133, 160, 5760} \cup (8192..8202)
        \cup {8232, 8233, 8239, 8287, 12288}

\* the digit zero of every script with decimal digits (Unicode 14, the
\* tables of CPython 3.11); the digits 1..9 of a script follow its zero
DigitZeros ==
    {48, 1632, 1776, 1984, 2406, 2534, 2662, 2790, 2918, 3046, 3174, 3302,
      3430, 3558, 3664, 3792, 3872, 4160, 4240, 6112, 6160, 6470, 6608,
      6784, 6800, 6992, 7088, 7232, 7248, 42528, 43216, 43264, 43472,
      43504, 43600, 44016, 65296, 66720, 68912, 69734, 69872, 69942, 70096,
      70384, 70736, 70864, 71248, 71360, 71472, 71904, 72016, 72784, 73040,
      73120, 92768, 92864, 93008, 120782, 120792, 120802, 120812, 120822,
      123200, 123632, 125264, 130032 }

\* the characters int() reads as a decimal digit
Digits == UNION {z..(z + 9) : z \in DigitZeros}

IsDigit(c) == c \in Digits

\* the value of a digit (Py_UNICODE_TODECIMAL: -1 for any other character)
DigitValue(c) ==
    IF IsDigit(c) THEN c - (CHOOSE z \in DigitZeros : z <= c /\ c <= z + 9)
    ELSE -1

\* the text without the white space at its two ends
RECURSIVE StripLeft(_)
StripLeft(s) ==
    IF s # << >> /\ Head(s) \in Whitespace THEN StripLeft(Tail(s)) ELSE s

RECURSIVE StripRight(_)
StripRight(s) ==
    IF s # << >> /\ s[Len(s)] \in Whitespace
    THEN StripRight(SubSeq(s, 1, Len(s) - 1)) ELSE s

Strip(s) == StripRight(StripLeft(s))

\* the text without its optional sign, "+" (43) or "-" (45)
Unsigned(s) ==
    IF s # << >> /\ Head(s) \in {43, 45} THEN Tail(s) ELSE s

\* digits, with single underscores (95) allowed between two digits
DigitString(s) ==
    /\ s # << >>
    /\ \A i \in 1..Len(s) :
          \/ IsDigit(s[i])
          \/ /\ s[i] = 95
             /\ i > 1 /\ i < Len(s)
             /\ IsDigit(s[i - 1]) /\ IsDigit(s[i + 1])

\* the digits of a numeral: its characters that are not underscores
DigitCount(s) == Len(SelectSeq(s, LAMBDA c : c # 95))

\* variant: a decimal point (46) is let through
IntParses_decimal(text) ==
    LET body == SelectSeq(Unsigned(Strip(text)), LAMBDA c : c # 46)
    IN DigitString(body) /\ DigitCount(body) <= MaxStrDigits

\* int(text) does not raise ValueError: the text is a numeral, of no more
\* than MaxStrDigits digits (white space, sign and underscores not counted)
IntParses(text) ==
    LET body == Unsigned(Strip(text))
    IN DigitString(body) /\ DigitCount(body) <= MaxStrDigits

RECURSIVE DigitsValue(_, _)
DigitsValue(s, acc) ==
    IF s = << >> THEN acc
    ELSE IF Head(s) = 95 THEN DigitsValue(Tail(s), acc)
    ELSE DigitsValue(Tail(s), 10 * acc + DigitValue(Head(s)))

\* int(text), for a text that parses
PyInt(text) ==
    LET t == Strip(text)
        magnitude == DigitsValue(Unsigned(t), 0)
    IN IF Head(t) = 45 THEN 0 - magnitude ELSE magnitude

\* a numeral of n digits "1"
Ones(n) == [i \in 1..n |-> 49]

\* texts the user may type into st.text_input:
\*   "1" "2" "7" "10" " 5" "+1" "-1" "01" "1_0"
\*   TAB "2", "1" NBSP, FULLWIDTH ONE, ARABIC-INDIC TWO,
\*   DEVANAGARI ONE ZERO, "-" ARABIC-INDIC ONE
\*   "a" "1.0" "_1" " " "+ 1", "1" U+001C, and the empty text,
\*   and a numeral of one digit more than int() takes
ProfileInputs ==
    { << 49 >>, << 50 >>, << 55 >>, << 49, 48 >>, << 32, 53 >>,
      << 43, 49 >>, << 45, 49 >>, << 48, 49 >>, << 49, 95, 48 >>,
      << 9, 50 >>, << 49, 160 >>, << 65297 >>, << 1634 >>,
      << 2407, 2406 >>, << 45, 1633 >>,
      << 97 >>, << 49, 46, 48 >>, << 95, 49 >>, << 32 >>,
      << 43, 32, 49 >>, << 49, 28 >>, << >>, Ones(MaxStrDigits + 1) }

\* variant: the identifier is compared with the wrong column
customer_profile_wrongcol(df, customer_id) ==
    Where(df, "customer_segment", customer_id.n)

\* customers_df[customers_df['customer_id'] == customer_id]
customer_profile(df, customer_id) == Where(df, "customer_id", customer_id)

\* variant: the first ten rows are taken before sorting
customer_transactions_headfirst(df, customer_id) ==
    SortDesc(HeadN(Where(df, "customer_id", customer_id), TopN),
             "transaction_date")

\* the columns of the customer table, and those of them that hold numbers
CustomerColumns ==
    << "customer_id", "customer_segment", "income", "marital_status",
       "profession" >>
NumericColumns == {"customer_segment", "income"}

\* str(v) of the cell v of column col: a number is written out in decimal,
\* a text is itself
CellText(col, v) == IF col \in NumericColumns THEN ToString(v) ELSE v

\* line 288: customer_profile.drop(columns=['customer_id']).T
\*   .rename(columns={customer_profile.index[0]: 'Valor'}).astype(str)
\* one column for each row found, named "Valor" for the first and by its
\* label for any other; its cells are the row's values but customer_id, as
\* texts
customer_profile_display(profile) ==
    [k \in 1..Len(profile) |->
        [column |-> IF profile[k].index = profile[1].index THEN "Valor"
                    ELSE ToString(profile[k].index),
         cells |-> [c \in Range(CustomerColumns) \ {"customer_id"} |->
                       CellText(c, profile[k][c])]]]

\* the customer's ten most recent transactions: one table for each outcome
\* of the sort
customer_transactions(df, customer_id) ==
    {HeadN(sorted, TopN) :
        sorted \in SortDesc(Where(df, "customer_id", customer_id),
                            "transaction_date")}

\* the elements of the branch "if not customer_profile.empty"
ProfileFound(profile, txs) ==
    LET segment == profile[1].customer_segment
    IN << El("subheader", "profile_header", ""),
          El("dataframe", "customer_profile", ""),
          El("write", "customer_segment", ""),
          El("subheader", "segment_header", "") >>
       \o (IF segment \in DOMAIN segment_analysis(customers_df)
           THEN << El("dataframe", "segment_means", ""),
                   El("markdown", "segment_caption", "") >>
           ELSE << El("write", "segment_means_not_found", "") >>)
       \o << El("subheader", "transactions_header", "") >>
       \o (IF txs # << >>
           THEN << El("dataframe", "customer_transactions", "") >>
           ELSE << El("write", "no_transactions", "") >>)

Profile ==
    /\ pc = "view"
    /\ page' = Pages[3]
    /\ \E text \in ProfileInputs :
        LET head == ui \o PageHead \o << El("text_input", "customer_id", "") >>
        IN /\ customer_id_input' = text
           /\ IF text = << >>
              THEN \* if customer_id_input: is false
                   /\ ui' = head
                   /\ UNCHANGED << lookups, shown_profile, shown_segment,
                                   shown_transactions >>
              ELSE IF ~IntParses(text)
              THEN \* except ValueError
                   /\ ui' = Append(head, El("warning", "invalid_id", ""))
                   /\ UNCHANGED << lookups, shown_profile, shown_segment,
                                   shown_transactions >>
              ELSE LET id == IntId(PyInt(text))
                       profile == customer_profile(customers_df, id)
                       segment == profile[1].customer_segment
                   IN IF profile # << >>
                      THEN \E txs \in customer_transactions(transactions_df,
                                                            id) :
                           /\ ui' = head \o ProfileFound(profile, txs)
                           /\ lookups' = << "customers", "transactions" >>
                           /\ shown_profile' =
                                customer_profile_display(profile)
                           /\ shown_segment' \in
                                segment_analysis_display_single(customers_df,
                                                                segment)
                           /\ shown_transactions' =
                                Project(txs, DisplayColumns)
                      ELSE /\ ui' = Append(head,
                                       El("warning", "customer_not_found", ""))
                           /\ lookups' = << "customers" >>
                           /\ UNCHANGED << shown_profile, shown_segment,
                                           shown_transactions >>
    /\ EndRun("end")
    /\ UNCHANGED << envVars, procVars, startVars, new_transaction,
                    X_new_transaction, predictCalls, missing_features,
                    fraud_score, shown_metrics, date_range >>

(***************************************************************************)
(* The specification.                                                      *)
(***************************************************************************)
Next ==
    \/ StartRun
    \/ Tick
    \/ Compile
    \/ Authenticate
    \/ DumpKey
    \/ BuildClient
    \/ LoadModels
    \/ LoadModelsBody
    \/ GetCustomersData
    \/ CustomersQuery
    \/ CustomersAnswer
    \/ GetTransactionsData
    \/ TransactionsQuery
    \/ TransactionsAnswer
    \/ OtherSessionStarts
    \/ OtherSessionDumpsKey
    \/ OtherSessionBuildsClient
    \/ OtherSessionLoadsModels
    \/ OtherSessionLoadsBody
    \/ OtherSessionLooksUp
    \/ OtherSessionAnswer
    \/ PageConfig
    \/ Dashboard
    \/ SimulatorIdle
    \/ SimulatorSubmit
    \/ Profile

Spec == Init /\ [][Next]_vars

(***************************************************************************)
(* Narrowing of the dashboard by a date range.  The script has no such     *)
(* widget: this part follows the written specification of the system       *)
(* (section 4.4: the dashboard is computed over the datasets "optionally   *)
(* narrowed by a date range", "inclusive of both range endpoints") and is  *)
(* kept out of Spec.                                                       *)
(***************************************************************************)
\* ranges the user may select: inner dates, one day, all dates, no dates
DateRanges == { << 2, 16 >>, << 5, 5 >>, << 1, 18 >>, << 30, 31 >> }

\* variant: the end of the range is left out
InDateRange_exclusive(df, D1, D2) ==
    SelectSeq(df, LAMBDA r : D1 <= r.transaction_date
                             /\ r.transaction_date < D2)

\* the transactions dated within [D1, D2]
InDateRange(df, D1, D2) ==
    SelectSeq(df, LAMBDA r : D1 <= r.transaction_date
                             /\ r.transaction_date <= D2)

DashboardFiltered ==
    /\ pc = "view"
    /\ \E range \in DateRanges :
          DashboardOn(InDateRange(transactions_df, range[1], range[2]), range)

NextFiltered ==
    \/ Next
    \/ DashboardFiltered

SpecFiltered == Init /\ [][NextFiltered]_vars

(***************************************************************************)
(* Properties.                                                             *)
(***************************************************************************)
\* a run has ended and its output is on the screen
RunEnded == pc = "idle" /\ halt # None

\* the form was submitted in the run on the screen
Submitted == new_transaction # NoFrame

\* no element of a view is on the screen
NoViewRendered ==
    /\ page = None
    /\ \A i \in 1..Len(ui) :
          ui[i].kind \notin {"title", "form", "dataframe", "metric",
                             "text_input"}

\* the run on the screen loaded nothing and asked the warehouse nothing
NothingLoaded ==
    /\ artifacts = NoArtifacts
    /\ loadsRun = 0
    /\ queries = << >>
    /\ customers_df = << >>
    /\ transactions_df = << >>

\* the encoder of the loaded map for column col, as a set of 0 or 1 records
EncodersOf(col) ==
    {artifacts.fraud_encoders[i] : i \in
        {j \in 1..Len(artifacts.fraud_encoders) :
            artifacts.fraud_encoders[j].col = col}}

WarnedFor(col) ==
    \E i \in 1..Len(ui) : ui[i].key = "unseen_value" /\ ui[i].arg = col

\* C1: a scored request shows exactly one risk tier: high when p >= 0.8,
\* medium when 0.4 <= p < 0.8, low when p < 0.4 (0.4 is medium, 0.8 is high).
C1_RiskTierByThreshold ==
    fraud_score # NoScore =>
        /\ CountShown(TierKeys) = 1
        /\ (10 * fraud_score >= 8 * ScoreScale) <=> Shown("ALTO RISCO")
        /\ (10 * fraud_score >= 4 * ScoreScale
              /\ 10 * fraud_score < 8 * ScoreScale) <=> Shown("MEDIO RISCO")
        /\ (10 * fraud_score < 4 * ScoreScale) <=> Shown("BAIXO RISCO")

\* the boundary 0.4 was scored and shown as medium
C1_Witness ==
    /\ RunEnded
    /\ 10 * fraud_score = 4 * ScoreScale
    /\ Shown("MEDIO RISCO")

\* C2: whenever predict_proba is invoked, the frame passed to it has exactly
\* the columns of fraud_features_names, same count, same order.
C2_FeatureVectorMatchesExpected ==
    predictCalls > 0 =>
        /\ X_new_transaction.cols = artifacts.fraud_features_names
        /\ DOMAIN X_new_transaction.vals
              = Range(artifacts.fraud_features_names)
        /\ \A c \in Range(X_new_transaction.cols) :
              X_new_transaction.vals[c] = new_transaction.vals[c]

\* predict_proba was called with an expected list ordered unlike the row
C2_Witness ==
    /\ predictCalls = 1
    /\ artifacts.fraud_features_names = FeaturesShuffled
    /\ artifacts.fraud_encoders = EncodersNarrow
    /\ WarnedFor("profession")

\* C3: a categorical column with an encoder and a submitted value outside the
\* encoder's vocabulary is encoded as -1 with a warning, and the submission
\* goes on: every encoder key gets its column, and the feature check and,
\* if it passes, the prediction still run.
C3_UnseenValueGetsSentinel ==
    Submitted =>
        \A col \in Range(RowColumns) : \A enc \in EncodersOf(col) :
            new_transaction.vals[col] \notin Range(enc.classes) =>
                /\ new_transaction.vals[EncodedName(col)] = -1
                /\ WarnedFor(col)
                /\ \A i \in 1..Len(artifacts.fraud_encoders) :
                      EncodedName(artifacts.fraud_encoders[i].col)
                          \in Range(new_transaction.cols)
                /\ \/ predictCalls = 1 /\ halt = "end"
                   \/ Shown("missing_features")
                        /\ halt = "stop_missing_features"

\* an unseen transaction type was warned about and the request was scored
C3_Witness ==
    /\ Submitted
    /\ new_transaction.vals.transaction_type = "ted"
    /\ artifacts.fraud_encoders = EncodersNarrow
    /\ WarnedFor("transaction_type")
    /\ new_transaction.vals["transaction_type_encoded"] = -1
    /\ predictCalls = 1

\* C4: a categorical column with an encoder and a submitted value inside the
\* vocabulary is encoded as the encoder's code of that value (its 0-based
\* position in the sorted classes), without a warning for that column; the
\* code depends on the encoder and the value only.
C4_SeenValueGetsLearnedCode ==
    Submitted =>
        \A col \in Range(RowColumns) : \A enc \in EncodersOf(col) :
            \A k \in 1..Len(enc.classes) :
                enc.classes[k] = new_transaction.vals[col] =>
                    /\ new_transaction.vals[EncodedName(col)] = k - 1
                    /\ ~WarnedFor(col)

\* "teacher" was submitted and encoded with its code 1, with no warning
C4_Witness ==
    /\ Submitted
    /\ artifacts.fraud_encoders = EncodersFull
    /\ new_transaction.vals.profession = "teacher"
    /\ new_transaction.vals["profession_encoded"] = 1
    /\ ~WarnedFor("profession")

\* C5: if an expected feature is not a column of the row after encoding, the
\* submission is aborted: the error lists exactly the absent expected names,
\* in expected order, predict_proba is not invoked and no tier is rendered.
C5_MissingFeatureAborts ==
    (Submitted /\ \E i \in 1..Len(artifacts.fraud_features_names) :
        artifacts.fraud_features_names[i] \notin Range(new_transaction.cols))
    =>  /\ Shown("missing_features")
        /\ missing_features =
              SelectSeq(artifacts.fraud_features_names,
                        LAMBDA f : f \notin Range(new_transaction.cols))
        /\ halt = "stop_missing_features"
        /\ predictCalls = 0
        /\ fraud_score = NoScore
        /\ CountShown(TierKeys) = 0

\* two names were missing, and an expected name between them was present
C5_Witness ==
    /\ Submitted
    /\ missing_features = << "channel_encoded", "account_age" >>
    /\ "transaction_type_encoded" \in Range(new_transaction.cols)
    /\ Shown("missing_features")

\* the run on the screen passed startup and rendered a view
RenderedNormally ==
    /\ halt \in {"end", "stop_missing_features"}
    /\ client # None
    /\ artifacts = LoadedArtifacts
    /\ customers_df = to_dataframe(warehouse.customers)
    /\ transactions_df = to_dataframe(warehouse.transactions)
    /\ page # None
    /\ Shown("app_title")

CredentialStepDone == authPaths # {} /\ pc \notin {"dump", "client"}

\* C7: if the client is still None after the credential step, the run shows
\* an error and stops: no artifact is loaded, no query is issued, no view is
\* rendered in that run.
C7_NoClientStopsRun ==
    (CredentialStepDone /\ client = None) =>
        /\ Shown("no_auth")
        /\ halt = "stop_no_auth"
        /\ pc = "idle"
        /\ NothingLoaded
        /\ NoViewRendered
        /\ predictCalls = 0

\* the gcp_key entry was there and unusable, and the run stopped
C7_Witness ==
    /\ authPaths = {"secrets"}
    /\ secrets = "bad_json"
    /\ client = None
    /\ Shown("no_auth")

\* C8 as stated: whenever the secrets store has no gcp_key entry, the run
\* halts at startup with a message and loads, queries and renders nothing.
C8_AbsentSecretsHalt ==
    (authPaths # {} /\ secrets = "absent") =>
        /\ halt = "stop_no_auth" \/ pc = "auth"
        /\ NothingLoaded
        /\ NoViewRendered

\* C8 amended: without a gcp_key entry a warning is shown and the local
\* gcloud login is tried; the run halts at startup, having loaded, queried
\* and rendered nothing, exactly when that login fails too.
C8_AbsentSecretsFallBack ==
    (authPaths # {} /\ secrets = "absent") =>
        /\ authPaths = {"gcloud"}
        /\ Shown("secrets_absent")
        /\ ctorCalls = 1
        /\ ~adcOk => /\ client = None
                     /\ Shown("gcloud_error")
                     /\ Shown("no_auth")
                     /\ halt = "stop_no_auth"
                     /\ NothingLoaded
                     /\ NoViewRendered
        /\ adcOk => /\ client # None
                    /\ Shown("gcloud_ok")
                    /\ ~Shown("no_auth")
                    /\ halt # "stop_no_auth"

\* without a gcp_key entry the local login worked and a view was rendered
C8_Witness ==
    /\ secrets = "absent"
    /\ adcOk
    /\ Shown("secrets_absent")
    /\ halt = "end"
    /\ Shown("app_title")

\* the body of load_models was entered by this run and has come to its end
\* (the return of line 68 or the st.stop() of line 75)
LoadBodyDone == loadsRun > 0 /\ pc # "models_load"

\* C9: if a file read by load_models is missing, the load fails hard: an
\* error is shown, the run stops, nothing is queried, rendered or scored,
\* and the run never holds a partial set of artifacts.
C9_MissingArtifactStopsRun ==
    /\ artifacts \in {NoArtifacts, LoadedArtifacts}
    /\ modelsCache \in {NoArtifacts, LoadedArtifacts}
    /\ (LoadBodyDone /\ missingFiles # {}) =>
          /\ Shown("models_not_found")
          /\ \E i \in 1..Len(ui) :
                ui[i].key = "models_not_found" /\ ui[i].arg \in missingFiles
          /\ halt = "stop_models"
          /\ pc = "idle"
          /\ artifacts = NoArtifacts
          /\ modelsCache = NoArtifacts
          /\ queries = << >>
          /\ NoViewRendered
          /\ predictCalls = 0

\* only the last file loaded was missing, and the run stopped on it
C9_Witness ==
    /\ missingFiles = {"fraud_features_names.joblib"}
    /\ loadsRun = 1
    /\ halt = "stop_models"
    /\ client # None

\* the identifier typed into the profile view is an integer that no row of
\* the customer dataset carries
LookupMisses ==
    /\ page = Pages[3]
    /\ customer_id_input # << >>
    /\ IntParses(customer_id_input)
    /\ \A i \in 1..Len(customers_df) :
          customers_df[i].customer_id # IntId(PyInt(customer_id_input))

\* C10: in the profile view an identifier that parses and matches no row
\* gets the 'not found' message and nothing else of the profile: no record,
\* no segment means, no transactions table.
C10_NotFoundIsExplicit ==
    LookupMisses =>
        /\ Shown("customer_not_found")
        /\ ~Shown("invalid_id")
        /\ \A i \in 1..Len(ui) : ui[i].kind # "dataframe"
        /\ ~Shown("profile_header")
        /\ ~Shown("customer_segment")
        /\ ~Shown("no_transactions")
        /\ shown_profile = << >>
        /\ shown_segment = << >>
        /\ shown_transactions = << >>
        /\ halt = "end"

\* customer 2 was looked up in a dataset that has segment 2 but no customer 2
C10_Witness ==
    /\ LookupMisses
    /\ PyInt(customer_id_input) = 2
    /\ 2 \in Unique(customers_df, "customer_segment")
    /\ Shown("customer_not_found")

\* C11: in the profile view a non-empty input that int() rejects gets the
\* invalid-input message, which is not the 'not found' message; 'not found'
\* is not shown and neither dataset is searched for that input.
C11_InvalidInputIsDistinct ==
    /\ (page = Pages[3] /\ customer_id_input # << >>
          /\ ~IntParses(customer_id_input)) =>
            /\ Shown("invalid_id")
            /\ ~Shown("customer_not_found")
            /\ lookups = << >>
            /\ \A i \in 1..Len(ui) : ui[i].kind # "dataframe"
            /\ shown_profile = << >>
            /\ shown_segment = << >>
            /\ shown_transactions = << >>
            /\ halt = "end"
    /\ (page = Pages[3] /\ customer_id_input \in
          { << 97 >>, << 49, 46, 48 >>, << 95, 49 >>, << 32 >>,
            << 43, 32, 49 >>, << 49, 28 >>, Ones(MaxStrDigits + 1) }) =>
            /\ Shown("invalid_id")
            /\ lookups = << >>
    /\ Shown("invalid_id") => ~Shown("customer_not_found")

\* "1.0" was typed and rejected
C11_Witness ==
    /\ page = Pages[3]
    /\ customer_id_input = << 49, 46, 48 >>
    /\ Shown("invalid_id")
    /\ halt = "end"

\* C12: for every content of the customer dataset, rows sharing one
\* customer_id included, the profile view displays at most one customer
\* record for the identifier entered.
C12_AtMostOneRecord ==
    page = Pages[3] => Len(shown_profile) <= 1

\* the profile view found the customer whose identifier was typed
CustomerFound == page = Pages[3] /\ shown_profile # << >>

\* the identifier entered, as the int the view compares with
EnteredId == IntId(PyInt(customer_id_input))

\* positions of the dataset rows that belong to the identifier entered
OwnRows ==
    {i \in 1..Len(transactions_df) :
        transactions_df[i].customer_id = EnteredId}

\* the row of the dataset a row on the screen was taken from: the one with
\* its label
SourceRow(r) == transactions_df[r.index + 1]

\* the labels of the transactions on the screen
ShownLabels ==
    {shown_transactions[k].index : k \in 1..Len(shown_transactions)}

\* the row on the screen holds the six columns of its row of the dataset
ShowsSourceRow(r) ==
    /\ DOMAIN r = Range(DisplayColumns) \cup {"index"}
    /\ \A c \in Range(DisplayColumns) : r[c] = SourceRow(r)[c]

\* C13: for a found customer the transactions table shows only transactions
\* of the identifier entered, at most ten of them (all of them if there are
\* fewer), ordered by transaction_date descending, and no transaction of the
\* customer left out is more recent than one shown.
C13_TenMostRecentTransactions ==
    CustomerFound =>
        /\ Len(shown_transactions) <= 10
        /\ Len(shown_transactions)
              = (IF Cardinality(OwnRows) < 10 THEN Cardinality(OwnRows) ELSE 10)
        /\ \A k \in 1..Len(shown_transactions) :
              /\ shown_transactions[k].index + 1 \in OwnRows
              /\ SourceRow(shown_transactions[k]).customer_id = EnteredId
              /\ ShowsSourceRow(shown_transactions[k])
        /\ \A k, l \in 1..Len(shown_transactions) :
              k < l => /\ shown_transactions[k].transaction_date
                            >= shown_transactions[l].transaction_date
                       /\ shown_transactions[k].index
                            # shown_transactions[l].index
        /\ \A i \in OwnRows :
              i - 1 \notin ShownLabels =>
                 \A k \in 1..Len(shown_transactions) :
                    transactions_df[i].transaction_date
                        <= shown_transactions[k].transaction_date

\* the customer had more than ten transactions; ten were shown, and one left
\* out is as old as the oldest one shown
C13_Witness ==
    /\ CustomerFound
    /\ Cardinality(OwnRows) > 10
    /\ Len(shown_transactions) = 10
    /\ \E i \in OwnRows :
          /\ i - 1 \notin ShownLabels
          /\ transactions_df[i].transaction_date
                = shown_transactions[10].transaction_date

\* positions of the customers whose customer_segment is seg
SegmentMembers(seg) ==
    {i \in 1..Len(customers_df) : customers_df[i].customer_segment = seg}

\* the sum of the incomes of the customers at the positions of S
RECURSIVE IncomeOver(_)
IncomeOver(S) ==
    IF S = {} THEN 0
    ELSE LET i == CHOOSE j \in S : TRUE
         IN customers_df[i].income + IncomeOver(S \ {i})

\* the first row of the dataset with the identifier entered
FirstMatch ==
    CHOOSE i \in 1..Len(customers_df) :
        /\ customers_df[i].customer_id = EnteredId
        /\ \A j \in 1..(i - 1) : customers_df[j].customer_id # EnteredId

\* the tables of segment means on the screen have a row for every segment
\* of the dataset (dashboard), or for the found customer's segment (profile)
SegmentsShown ==
    /\ (pc = "idle" /\ page = Pages[1]) =>
          DOMAIN shown_segment
              = {customers_df[i].customer_segment : i \in 1..Len(customers_df)}
    /\ CustomerFound =>
          DOMAIN shown_segment = {customers_df[FirstMatch].customer_segment}
    /\ \A seg \in DOMAIN shown_segment : SegmentMembers(seg) # {}

\* C14 (as stated): every segment mean shown, in the dashboard (one per
\* segment) and in the profile view (the found customer's segment), is the
\* arithmetic mean of the attribute over all and only the customers of that
\* segment; for two customers in segment 1 with incomes 100 and 200 the
\* mean is 150.
C14_SegmentMeansExact ==
    /\ SegmentsShown
    /\ \A seg \in DOMAIN shown_segment :
          shown_segment[seg][RendaMedia] * Cardinality(SegmentMembers(seg))
              = 100 * IncomeOver(SegmentMembers(seg))
    /\ (pc = "idle" /\ page \in {Pages[1], Pages[3]}
          /\ customers_df = to_dataframe(CustomersA)
          /\ 1 \in DOMAIN shown_segment) =>
          shown_segment[1][RendaMedia] = 15000

\* C14 (amended): every segment mean shown is the arithmetic mean of the
\* attribute over all and only the customers of that segment, rounded to
\* two decimals: it is a whole number of hundredths no further than half a
\* hundredth from the mean; for two customers in segment 1 with incomes 100
\* and 200 it is 150.
C14_SegmentMeansRounded ==
    /\ SegmentsShown
    /\ \A seg \in DOMAIN shown_segment :
          LET n == Cardinality(SegmentMembers(seg))
              off == shown_segment[seg][RendaMedia] * n
                        - 100 * IncomeOver(SegmentMembers(seg))
          IN /\ 2 * off <= n
             /\ 2 * off >= 0 - n
    /\ (pc = "idle" /\ page \in {Pages[1], Pages[3]}
          /\ customers_df = to_dataframe(CustomersA)
          /\ 1 \in DOMAIN shown_segment) =>
          shown_segment[1][RendaMedia] = 15000

\* the dashboard showed 633.67 for the segment whose three customers have
\* the incomes 500, 700 and 701 (mean 633.666...), next to another segment
C14_Witness ==
    /\ pc = "idle"
    /\ page = Pages[1]
    /\ DOMAIN shown_segment = {0, 2}
    /\ Cardinality(SegmentMembers(2)) = 3
    /\ IncomeOver(SegmentMembers(2)) = 1901
    /\ shown_segment[2][RendaMedia] = 63367

\* a cached copy of the dataset exists and is less than one hour old
CopyInDate(d) == CacheOf(d).valid /\ now - CacheOf(d).at < ttl

\* this step sends a warehouse query of this session for dataset d
Issued(d) ==
    /\ Len(queries') > Len(queries)
    /\ \E i \in (Len(queries) + 1)..Len(queries') : queries'[i] = d

\* this step is the lookup of this session's loader call for dataset d
LooksUp(d) == pc = d /\ pc' # pc

\* this step serves this session's call for dataset d from the cached copy
Served(d) ==
    /\ queries' = queries
    /\ pc' \notin {d \o "_send", d \o "_wait"}
    /\ IF d = "customers" THEN customers_df' = customersCache.df
       ELSE transactions_df' = transactionsCache.df

C16_ClientConstructedOnce ==
    [][ clientsBuilt => ctorCalls' <= ctorCalls ]_vars

\* the row of a submitted form, and its derived feature
SubmittedRow == new_transaction.vals
DerivedRatio == new_transaction.vals["amount_per_income"]

\* C17: for every non-negative amount and income of a submitted form, zero
\* income included, amount_per_income is the quotient of the amount by the
\* income plus one millionth, whose divisor is never zero; for amount 1000
\* and income 0 it is 1000000000.
C17_AmountPerIncomeDefined ==
    Submitted =>
        /\ SubmittedRow.amount >= 0 /\ SubmittedRow.income >= 0
        /\ DerivedRatio.den > 0
        /\ DerivedRatio.num = SubmittedRow.amount * 1000000
        /\ DerivedRatio.den = SubmittedRow.income * 1000000 + 1
        /\ (SubmittedRow.amount = 1000 /\ SubmittedRow.income = 0) =>
              DerivedRatio.num = 1000000000 * DerivedRatio.den

\* a form with amount 1000 and income 0 was submitted and got the ratio
\* 1000000000 / 1
C17_Witness ==
    /\ Submitted
    /\ SubmittedRow.amount = 1000
    /\ SubmittedRow.income = 0
    /\ DerivedRatio = [num |-> 1000000000, den |-> 1]

\* the dashboard is on the screen
DashboardShown == pc = "idle" /\ page = Pages[1]

\* positions of all transactions, and of those marked is_fraudulent
AllRows == 1..Len(transactions_df)
FlaggedRows == {i \in AllRows : transactions_df[i].is_fraudulent}

\* the table has at most ten rows, all of the population P and as many as
\* fit, in fraud_score descending order, and no row of P left out has a
\* higher fraud_score than a row shown
TopScoredOf(P) ==
    /\ Len(shown_transactions) <= 10
    /\ Len(shown_transactions)
          = (IF Cardinality(P) < 10 THEN Cardinality(P) ELSE 10)
    /\ \A k \in 1..Len(shown_transactions) :
          /\ shown_transactions[k].index + 1 \in P
          /\ ShowsSourceRow(shown_transactions[k])
    /\ \A k, l \in 1..Len(shown_transactions) :
          k < l => /\ shown_transactions[k].fraud_score
                        >= shown_transactions[l].fraud_score
                   /\ shown_transactions[k].index
                        # shown_transactions[l].index
    /\ \A i \in P :
          i - 1 \notin ShownLabels =>
             \A k \in 1..Len(shown_transactions) :
                transactions_df[i].fraud_score
                    <= shown_transactions[k].fraud_score

\* C18 (as stated): the dashboard's top-ten table shows the ten
\* highest-scored transactions of the transaction dataset: no transaction of
\* the dataset left out has a higher fraud_score than one shown.
C18_TopTenOfDataset == DashboardShown => TopScoredOf(AllRows)

\* C18 (amended): the table shows the ten highest-scored transactions among
\* those marked is_fraudulent when at least one is marked, and among all
\* transactions otherwise.
C18_TopTenOfFlagged ==
    DashboardShown =>
        IF FlaggedRows # {} THEN TopScoredOf(FlaggedRows)
        ELSE TopScoredOf(AllRows)

\* more than ten transactions were flagged; the table shows ten of them and
\* leaves out an unflagged transaction that scores higher than one shown
C18_Witness ==
    /\ DashboardShown
    /\ Cardinality(FlaggedRows) > 10
    /\ Len(shown_transactions) = 10
    /\ \A k \in 1..10 : shown_transactions[k].is_fraudulent
    /\ \E i \in AllRows \ FlaggedRows :
          transactions_df[i].fraud_score > shown_transactions[10].fraud_score

\* a lookup by identifier was made in the run on the screen
LookupMade ==
    /\ pc = "idle"
    /\ page = Pages[3]
    /\ customer_id_input # << >>
    /\ IntParses(customer_id_input)

\* the dataset has a row for the customer numbered n, in any representation
HasCustomer(df, n) == \E i \in 1..Len(df) : df[i].customer_id.n = n

\* C19: the identifier columns of both datasets are brought to one (string)
\* representation before the lookups, so a customer present in both tables
\* is matched in both: the record is found and the customer's transactions
\* are listed.
C19_MatchedInBothTables ==
    (/\ LookupMade
     /\ HasCustomer(customers_df, PyInt(customer_id_input))
     /\ HasCustomer(transactions_df, PyInt(customer_id_input))) =>
        /\ shown_profile # << >>
        /\ shown_transactions # << >>
        /\ \A k \in 1..Len(shown_transactions) :
              SourceRow(shown_transactions[k]).customer_id.n
                  = PyInt(customer_id_input)

\* the dashboard on the screen was narrowed by a date range
DashboardNarrowed == DashboardShown /\ date_range # << >>

\* positions of the transactions dated within the selected range
RowsInRange ==
    {i \in AllRows : /\ date_range[1] <= transactions_df[i].transaction_date
                     /\ transactions_df[i].transaction_date <= date_range[2]}

\* C20: when the dashboard is narrowed by a date range [D1, D2], its
\* aggregates (the transaction count, the flagged count and the top-ten
\* table) are computed over exactly the transactions with
\* D1 <= transaction_date <= D2, both endpoints included.
C20_DateRangeInclusive ==
    DashboardNarrowed =>
        /\ shown_metrics.total = Cardinality(RowsInRange)
        /\ shown_metrics.fraudulent = Cardinality(RowsInRange \cap FlaggedRows)
        /\ IF RowsInRange \cap FlaggedRows # {}
           THEN TopScoredOf(RowsInRange \cap FlaggedRows)
           ELSE TopScoredOf(RowsInRange)

\* the dashboard was narrowed to a range that leaves transactions out; the
\* table shows a transaction dated exactly D1 and one dated exactly D2, and
\* none dated outside
C20_Witness ==
    /\ DashboardNarrowed
    /\ date_range[1] < date_range[2]
    /\ shown_metrics.total > 0
    /\ shown_metrics.total < Len(transactions_df)
    /\ \E k \in 1..Len(shown_transactions) :
          shown_transactions[k].transaction_date = date_range[1]
    /\ \E k \in 1..Len(shown_transactions) :
          shown_transactions[k].transaction_date = date_range[2]
    /\ \A k \in 1..Len(shown_transactions) :
          /\ date_range[1] <= shown_transactions[k].transaction_date
          /\ shown_transactions[k].transaction_date <= date_range[2]

\* this step is a scoring submission
SubmissionStep == pc = "view" /\ page' = Pages[2] /\ new_transaction' # NoFrame

\* this step starts a later run
RerunStep == pc = "idle" /\ pc' # "idle"

\* C21: a scoring submission, whatever its outcome, leaves the loaded
\* datasets, the artifacts (encoder maps and feature list included), the
\* caches and the files and tables behind them as they were, and the row
\* and its score are gone when a later run starts.
C21_ScoringHasNoSideEffects ==
    [][ /\ SubmissionStep =>
              /\ customers_df' = customers_df
              /\ transactions_df' = transactions_df
              /\ artifacts' = artifacts
              /\ modelsCache' = modelsCache
              /\ customersCache' = customersCache
              /\ transactionsCache' = transactionsCache
              /\ encodersOnDisk' = encodersOnDisk
              /\ featuresOnDisk' = featuresOnDisk
              /\ warehouse' = warehouse
        /\ RerunStep =>
              /\ new_transaction' = NoFrame
              /\ X_new_transaction' = NoFrame
              /\ fraud_score' = NoScore
              /\ missing_features' = << >>
      ]_vars

\* the run after a submission aborted for missing features: the row is gone
\* and the cached artifacts and datasets are those that were loaded
C21_Witness ==
    /\ pc = "models"
    /\ afterAbort
    /\ new_transaction = NoFrame
    /\ fraud_score = NoScore
    /\ modelsCache = LoadedArtifacts
    /\ customersCache.df = to_dataframe(warehouse["customers"])
    /\ transactionsCache.df = to_dataframe(warehouse["transactions"])

\* the views whose elements are on the screen, by the title of their option
\* in the navigation control
ViewsRendered ==
    (IF Shown("total_transactions") \/ Shown("segment_analysis")
        \/ Shown("top_transactions")
     THEN {"Visao Geral do Dashboard"} ELSE {})
    \cup (IF Shown("transaction_form")
          THEN {"Analise de Transacao (Simulacao)"} ELSE {})
    \cup (IF Shown("customer_id") THEN {"Perfil do Cliente"} ELSE {})

\* C22: a run that reaches the navigation control executes exactly one of
\* the three views, the one selected (a run halted before it executes
\* none); predict_proba is invoked at most once, only in the simulator view
\* and only when the form was submitted, never in the dashboard or the
\* profile view.
C22_OneViewAndInferenceOnlyOnSubmit ==
    /\ Cardinality(ViewsRendered) <= 1
    /\ page # None => ViewsRendered = {page}
    /\ page = None => ViewsRendered = {}
    /\ (pc = "idle" /\ halt \in {"end", "stop_missing_features"}) =>
          /\ page \in {"Visao Geral do Dashboard",
                       "Analise de Transacao (Simulacao)",
                       "Perfil do Cliente"}
          /\ ViewsRendered = {page}
    /\ predictCalls <= 1
    /\ predictCalls > 0 =>
          /\ page = "Analise de Transacao (Simulacao)"
          /\ Submitted
          /\ fraud_score # NoScore
    /\ page \in {"Visao Geral do Dashboard", "Perfil do Cliente"} =>
          /\ predictCalls = 0
          /\ ~Submitted
          /\ fraud_score = NoScore
    /\ (page = "Analise de Transacao (Simulacao)" /\ ~Submitted) =>
          predictCalls = 0

\* the simulator view was selected and its form submitted: it is the only
\* view on the screen and the classifier was invoked once
C22_Witness ==
    /\ pc = "idle"
    /\ page = "Analise de Transacao (Simulacao)"
    /\ Submitted
    /\ predictCalls = 1
    /\ Shown("transaction_form")
    /\ ~Shown("top_transactions")
    /\ ~Shown("customer_id")

\* the keys of the loaded encoder map
EncoderKeys ==
    {artifacts.fraud_encoders[i].col : i \in 1..Len(artifacts.fraud_encoders)}

\* the columns of the row before the encoding loop
InputColumns == Range(RowColumns) \cup {"amount_per_income"}

\* C23: in a submission, every key of the encoder map that is not a column
\* of the row gets its '<name>_encoded' column with the sentinel -1 and no
\* warning, so after the loop the row has a '<name>_encoded' column for
\* every key of the encoder map.
C23_AbsentColumnGetsSentinel ==
    Submitted =>
        /\ \A col \in EncoderKeys :
              EncodedName(col) \in Range(new_transaction.cols)
        /\ \A col \in EncoderKeys \ InputColumns :
              /\ new_transaction.vals[EncodedName(col)] = -1
              /\ ~WarnedFor(col)

\* the encoder map has the key 'channel', which the form does not supply:
\* the row got channel_encoded = -1 without a warning
C23_Witness ==
    /\ Submitted
    /\ "channel" \in EncoderKeys \ InputColumns
    /\ "channel_encoded" \in Range(new_transaction.cols)
    /\ new_transaction.vals["channel_encoded"] = -1
    /\ ~WarnedFor("channel")
    /\ "transaction_type_encoded" \in Range(new_transaction.cols)

\* the gcp_key entry is there and loading it fails
SecretsFail == secrets \in {"bad_json", "unwritable", "bad_client"}

\* C24: when the gcp_key entry is present and loading it fails, the local
\* gcloud login is not tried, even where it would succeed: the client stays
\* None and the run halts; the gcloud login is tried only when the entry is
\* absent, and no run tries both authentication paths.
C24_NoFallbackAfterFailedSecrets ==
    /\ Cardinality(authPaths) <= 1
    /\ "gcloud" \in authPaths => secrets = "absent"
    /\ "secrets" \in authPaths => secrets # "absent"
    /\ (CredentialStepDone /\ (SecretsFail \/ Shown("secrets_error"))) =>
          /\ authPaths = {"secrets"}
          /\ client = None
          /\ pc = "idle"
          /\ halt = "stop_no_auth"
          /\ Shown("secrets_error")
          /\ Shown("no_auth")
          /\ ~Shown("secrets_absent")
          /\ ~Shown("gcloud_ok")
          /\ ~Shown("gcloud_error")
          /\ NothingLoaded
          /\ NoViewRendered

\* the temporary key file could not be written while the local gcloud login
\* would have worked: the run stopped without a client
C24_Witness ==
    /\ secrets = "unwritable"
    /\ adcOk
    /\ authPaths = {"secrets"}
    /\ client = None
    /\ halt = "stop_no_auth"
    /\ Shown("secrets_error")
    /\ ~Shown("gcloud_ok")

====
